---- MODULE Spec2Model ----
(***************************************************************************)
(* A model of exam_result.py: the Telegram bot that loads a JSON table of  *)
(* exam results (load_exam_data), searches it (search_exam_results) and    *)
(* answers each text message (handle_message).                             *)
(*                                                                         *)
(* A Python str is a sequence of one-character strings.  An optional value *)
(* is None == <<>> or Some(v) == <<v>>.  A dict that keeps insertion order *)
(* (EXAM_DATA) is a sequence of [year, entries] groups with distinct keys; *)
(* an entry is a record that holds only the keys present in the JSON.      *)
(***************************************************************************)
EXTENDS Integers, Sequences, FiniteSets, TLC

VARIABLES
    exam_file,        \* what is on disk at JSON_FILE_PATH
    regions_file,     \* what is on disk at REGIONS_JSON_FILE_PATH
    main_pc,          \* position of main(): "start", "loaded"
    EXAM_DATA,        \* global EXAM_DATA
    REGION_LINK_MAP,  \* global REGION_LINK_MAP
    boot,             \* the two globals as load_exam_data left them
    pc,               \* per message: position of its handler coroutine
    update,           \* per message: the inbound update (None before arrival)
    year_filter,      \* per message: local year_filter of handle_message
    actual_query,     \* per message: local actual_query of handle_message
    results,          \* per message: local results of handle_message
    idx,              \* per message: results already processed by the loop
    replies,          \* per message: replies sent to the chat, in order
    requests,         \* per message: HTTP requests issued, in order
    faults,           \* per message: items whose download or document send failed
    call              \* SpecSearch: one direct call of search_exam_results

vars == <<exam_file, regions_file, main_pc, EXAM_DATA, REGION_LINK_MAP, boot,
          pc, update, year_filter, actual_query, results, idx, replies,
          requests, faults, call>>

shared == <<exam_file, regions_file, main_pc, EXAM_DATA, REGION_LINK_MAP, boot>>

-----------------------------------------------------------------------------
(* Bounds *)

NumHandlers == 2
MaxQueryLen == 2

Handlers == 1..NumHandlers

-----------------------------------------------------------------------------
(* Python values *)

None == <<>>
Some(v) == <<v>>

\* Python truthiness of an Optional[str]: None and "" are falsy.
Truthy(opt) == opt # None /\ opt[1] # <<>>

\* dict.get(key, default) on an entry
Get(entry, key, default) == IF key \in DOMAIN entry THEN entry[key] ELSE default

\* str.lower(), one character at a time
LowerChar(c) ==
    CASE c = "A" -> "a"
      [] c = "B" -> "b"
      [] c = "P" -> "p"
      [] c = "D" -> "d"
      [] c = "F" -> "f"
      [] OTHER -> c

lower(s) == [i \in 1..Len(s) |-> LowerChar(s[i])]

\* needle in haystack (str.__contains__)
IsSubstring(needle, haystack) ==
    \E i \in 0..(Len(haystack) - Len(needle)) :
        SubSeq(haystack, i + 1, i + Len(needle)) = needle

endswith(s, suffix) ==
    /\ Len(s) >= Len(suffix)
    /\ SubSeq(s, Len(s) - Len(suffix) + 1, Len(s)) = suffix

IsSpace(c) == c \in {" ", "\t"}
IsDigitChar(c) == c \in {"0", "1", "2", "3", "4", "5", "6", "7", "8", "9"}

\* str.isdigit(): non-empty and every character a digit
isdigit(s) == s # <<>> /\ \A i \in 1..Len(s) : IsDigitChar(s[i])

RECURSIVE LStrip(_)
LStrip(s) == IF s = <<>> \/ ~IsSpace(Head(s)) THEN s ELSE LStrip(Tail(s))

RECURSIVE RStrip(_)
RStrip(s) ==
    IF s = <<>> \/ ~IsSpace(s[Len(s)]) THEN s ELSE RStrip(SubSeq(s, 1, Len(s) - 1))

\* str.strip()
strip(s) == RStrip(LStrip(s))

\* str.split(maxsplit=1): the first whitespace-delimited token and, when
\* anything but whitespace follows it, the rest with its leading whitespace
\* removed (trailing whitespace of the rest is kept).
split_maxsplit1(s) ==
    LET t == LStrip(s)
        spaces == {i \in 1..Len(t) : IsSpace(t[i])}
    IN  IF t = <<>> THEN <<>>
        ELSE IF spaces = {} THEN <<t>>
        ELSE LET k == CHOOSE i \in spaces : \A j \in spaces : i <= j
                 rest == LStrip(SubSeq(t, k, Len(t)))
             IN  IF rest = <<>> THEN <<SubSeq(t, 1, k - 1)>>
                 ELSE <<SubSeq(t, 1, k - 1), rest>>

-----------------------------------------------------------------------------
(* String literals of the model *)

NA == <<"N", "/", "A">>
DOT_PDF == <<".", "p", "d", "f">>
DEFAULT_REFERER == <<"m">>

Y2024 == <<"2", "0", "2", "4">>
Y2025 == <<"2", "0", "2", "5">>
Y1999 == <<"1", "9", "9", "9">>

SearchFields == {"region", "district", "township", "exam_center", "alphabet_code"}

-----------------------------------------------------------------------------
(* search_exam_results *)

\* The condition of lines 93-97, on an entry's five fields (a missing key
\* reads as "").
EntryMatchesRegionOnly(entry, query_lower) ==
    IsSubstring(query_lower, lower(Get(entry, "region", <<>>)))

EntryMatches(entry, query_lower) ==
    \/ IsSubstring(query_lower, lower(Get(entry, "region", <<>>)))
    \/ IsSubstring(query_lower, lower(Get(entry, "district", <<>>)))
    \/ IsSubstring(query_lower, lower(Get(entry, "township", <<>>)))
    \/ IsSubstring(query_lower, lower(Get(entry, "exam_center", <<>>)))
    \/ IsSubstring(query_lower, lower(Get(entry, "alphabet_code", <<>>)))

\* The dict appended at lines 99-107.
FoundResult(year, entry) ==
    [year          |-> year,
     region        |-> Get(entry, "region", <<>>),
     district      |-> Get(entry, "district", <<>>),
     township      |-> Get(entry, "township", <<>>),
     exam_center   |-> Get(entry, "exam_center", <<>>),
     alphabet_code |-> Get(entry, "alphabet_code", <<>>),
     download_link |-> Get(entry, "download_link", NA)]

\* The inner loop, lines 84-107.
RECURSIVE ScanEntries(_, _, _)
ScanEntries(year, entries, query_lower) ==
    IF entries = <<>> THEN <<>>
    ELSE (IF EntryMatches(Head(entries), query_lower)
          THEN <<FoundResult(year, Head(entries))>>
          ELSE <<>>)
         \o ScanEntries(year, Tail(entries), query_lower)

\* The outer loop, lines 80-82.
RECURSIVE ScanYears(_, _, _)
ScanYears(data, query_lower, yfilter) ==
    IF data = <<>> THEN <<>>
    ELSE (IF Truthy(yfilter) /\ yfilter[1] # Head(data).year
          THEN <<>>
          ELSE ScanEntries(Head(data).year, Head(data).entries, query_lower))
         \o ScanYears(Tail(data), query_lower, yfilter)

search_exam_results(data, query, yfilter) ==
    IF data = <<>> THEN <<>>
    ELSE ScanYears(data, lower(query), yfilter)

-----------------------------------------------------------------------------
(* Datasets the model loads *)

C == <<"c">>

P1 == [region |-> <<"A", "b">>, district |-> C, township |-> C,
       exam_center |-> C, alphabet_code |-> C,
       download_link |-> <<"u", ".", "p", "d", "f">>]
P2 == [region |-> C, district |-> C, township |-> C,
       exam_center |-> <<"a", " ", "2", "0", "2", "5">>, alphabet_code |-> C]
P3 == [region |-> C, district |-> C, township |-> <<"b", " ", "A">>,
       exam_center |-> C, alphabet_code |-> C,
       download_link |-> <<"u", ".", "p", "d", "f">>]

Q1 == [region |-> C, district |-> C, township |-> C,
       exam_center |-> <<"1", "9", "9", "9", " ", "a">>, alphabet_code |-> C,
       download_link |-> <<"u", ".", "P", "D", "F">>]
Q2 == [region |-> <<"A">>, district |-> <<"a", "b">>,
       alphabet_code |-> <<"B">>, download_link |-> NA]

R1 == [district |-> <<"a", "B">>, download_link |-> <<"a">>]
R2 == [alphabet_code |-> <<"b", "a">>, download_link |-> <<"b", ".", "p", "d", "f">>]

Data1 == << [year |-> Y2024, entries |-> <<P1, P2>>],
            [year |-> Y2025, entries |-> <<P3>>] >>
Data2 == << [year |-> Y2025, entries |-> <<Q1, Q2>>] >>
Data3 == << [year |-> Y2024, entries |-> <<R1, R1>>],
            [year |-> Y1999, entries |-> <<>>],
            [year |-> Y2025, entries |-> <<R2, P1>>] >>

-----------------------------------------------------------------------------
(* SpecSearch: direct calls of search_exam_results *)

SearchDatasets == {<<>>, Data1, Data2, Data3}
QueryAlphabet == {"a", "A", "b", "2", "u"}
Queries == UNION {[1..n -> QueryAlphabet] : n \in 0..MaxQueryLen}
YearFilters == {None, Some(<<>>), Some(Y2024), Some(Y2025), Some(Y1999),
                Some(<<"2">>)}

NoCall == [state |-> "none", query |-> <<>>, year_filter |-> None,
           found_results |-> <<>>]

IdleHandlers ==
    /\ pc = [h \in Handlers |-> "idle"]
    /\ update = [h \in Handlers |-> [kind |-> "none", msg |-> <<>>]]
    /\ year_filter = [h \in Handlers |-> None]
    /\ actual_query = [h \in Handlers |-> None]
    /\ results = [h \in Handlers |-> <<>>]
    /\ idx = [h \in Handlers |-> 0]
    /\ replies = [h \in Handlers |-> <<>>]
    /\ requests = [h \in Handlers |-> <<>>]
    /\ faults = [h \in Handlers |-> <<>>]

handler_vars == <<pc, update, year_filter, actual_query, results, idx, replies,
                  requests, faults>>

SearchInit ==
    /\ exam_file \in {[kind |-> "ok", value |-> d] : d \in SearchDatasets}
    /\ regions_file = [kind |-> "missing", value |-> <<>>]
    /\ main_pc = "loaded"
    /\ EXAM_DATA = exam_file.value
    /\ REGION_LINK_MAP = <<>>
    /\ boot = [exam |-> EXAM_DATA, regions |-> REGION_LINK_MAP]
    /\ IdleHandlers
    /\ \E q \in Queries, yf \in YearFilters :
          call = [state |-> "called", query |-> q, year_filter |-> yf,
                  found_results |-> <<>>]

SearchReturn ==
    /\ call.state = "called"
    /\ call' = [call EXCEPT !.state = "returned",
                  !.found_results =
                      search_exam_results(EXAM_DATA, call.query, call.year_filter)]
    /\ UNCHANGED <<shared, handler_vars>>

SearchNext == SearchReturn

SpecSearch == SearchInit /\ [][SearchNext]_vars

-----------------------------------------------------------------------------
(* load_exam_data *)

\* What can be on disk.  kind "bad_shape" is a file that json.load accepts
\* and whose value then makes the rest of the try block raise (lines 36-37:
\* a value without keys()/values(), or a group without len(); line 54: an
\* item without 'region_name' or 'link').
Regions1 == << [region_name |-> <<"A", "b">>, link |-> <<"r">>],
               [region_name |-> <<"A">>, link |-> <<"s">>],
               [region_name |-> <<"A", "b">>, link |-> <<"t">>] >>

ExamFiles ==
    {[kind |-> "missing", value |-> <<>>],
     [kind |-> "invalid_json", value |-> <<>>],
     [kind |-> "bad_shape", value |-> Data2],
     [kind |-> "ok", value |-> <<>>],
     [kind |-> "ok", value |-> Data1],
     [kind |-> "ok", value |-> Data2]}

RegionsFiles ==
    {[kind |-> "missing", value |-> <<>>],
     [kind |-> "invalid_json", value |-> <<>>],
     [kind |-> "bad_shape", value |-> Regions1],
     [kind |-> "ok", value |-> Regions1]}

\* EXAM_DATA after the first try block, lines 32-48.  json.load's value is
\* assigned to the global at line 34, before lines 36-37 can raise; every
\* except branch resets it to {}.
LoadedExamDataNoReset(file) ==
    IF file.kind \in {"ok", "bad_shape"} THEN file.value ELSE <<>>

LoadedExamData(file) ==
    CASE file.kind = "missing"      -> <<>>
      [] file.kind = "invalid_json" -> <<>>
      [] file.kind = "bad_shape"    -> <<>>
      [] OTHER                      -> file.value

\* The dict comprehension of line 54: a later item overwrites an earlier one
\* of the same region_name.
RegionMap(items) ==
    [name \in {items[i].region_name : i \in 1..Len(items)} |->
        LET last == CHOOSE i \in 1..Len(items) :
                        /\ items[i].region_name = name
                        /\ \A j \in 1..Len(items) :
                              items[j].region_name = name => j <= i
        IN  items[last].link]

\* REGION_LINK_MAP after the second try block, lines 51-64.
LoadedRegionMap(file) ==
    CASE file.kind = "missing"      -> <<>>
      [] file.kind = "invalid_json" -> <<>>
      [] file.kind = "bad_shape"    -> <<>>
      [] OTHER                      -> RegionMap(file.value)

\* main(), line 238: the one call of load_exam_data, before polling starts.
LoadExamData ==
    /\ main_pc = "start"
    /\ EXAM_DATA' = LoadedExamData(exam_file)
    /\ REGION_LINK_MAP' = LoadedRegionMap(regions_file)
    /\ boot' = [exam |-> EXAM_DATA', regions |-> REGION_LINK_MAP']
    /\ main_pc' = "loaded"
    /\ UNCHANGED <<exam_file, regions_file, handler_vars, call>>

-----------------------------------------------------------------------------
(* Inbound messages *)

\* A message text is lead \o token \o sep \o rest \o trail: lead, sep and
\* trail are whitespace, token holds none, rest neither starts nor ends with
\* any, and sep is empty only when rest is.
Msg(lead, token, sep, rest, trail) ==
    [lead |-> lead, token |-> token, sep |-> sep, rest |-> rest, trail |-> trail]

Text(m) == m.lead \o m.token \o m.sep \o m.rest \o m.trail

Messages ==
    {Msg(<<>>, <<"a">>, <<>>, <<>>, <<>>),
     Msg(<<" ">>, Y2025, <<" ", "\t">>, <<"B", " ", "a">>, <<"\t">>),
     Msg(<<>>, Y2025, <<>>, <<>>, <<" ">>),
     Msg(<<>>, Y1999, <<" ">>, <<"a">>, <<>>),
     Msg(<<>>, Y1999, <<>>, <<>>, <<>>),
     Msg(<<>>, <<"z">>, <<>>, <<>>, <<>>),
     Msg(<<>>, <<"2", "0", "2">>, <<" ">>, <<"a">>, <<>>),
     Msg(<<>>, <<"2", "o", "2", "5">>, <<" ">>, <<"a">>, <<>>)}

-----------------------------------------------------------------------------
(* handle_message *)

Reply(kind, n, res) == [kind |-> kind, n |-> n, res |-> res]

Send(h, r) == replies' = [replies EXCEPT ![h] = Append(@, r)]

\* `year in EXAM_DATA`
HasYear(data, year) == \E g \in 1..Len(data) : data[g].year = year

\* Line 136: `if not EXAM_DATA`
DataMissingNever(data) == FALSE

DataMissing(data) == data = <<>>

\* Lines 142-155: year_filter, actual_query and whether the "No data found
\* for year" notice is sent.
ParseQueryKeepYear(user_query, data) ==
    LET parsed_query == split_maxsplit1(user_query)
    IN  IF /\ Len(parsed_query) > 1
           /\ isdigit(parsed_query[1])
           /\ Len(parsed_query[1]) = 4
        THEN IF HasYear(data, parsed_query[1])
             THEN [year_filter |-> Some(parsed_query[1]),
                   actual_query |-> user_query, notice |-> FALSE]
             ELSE [year_filter |-> None, actual_query |-> user_query,
                   notice |-> TRUE]
        ELSE [year_filter |-> None, actual_query |-> user_query,
              notice |-> FALSE]

ParseQueryNoNotice(user_query, data) ==
    LET parsed_query == split_maxsplit1(user_query)
    IN  IF /\ Len(parsed_query) > 1
           /\ isdigit(parsed_query[1])
           /\ Len(parsed_query[1]) = 4
           /\ HasYear(data, parsed_query[1])
        THEN [year_filter |-> Some(parsed_query[1]),
              actual_query |-> parsed_query[2], notice |-> FALSE]
        ELSE [year_filter |-> None, actual_query |-> user_query,
              notice |-> FALSE]

ParseQuery(user_query, data) ==
    LET parsed_query == split_maxsplit1(user_query)
    IN  IF /\ Len(parsed_query) > 1
           /\ isdigit(parsed_query[1])
           /\ Len(parsed_query[1]) = 4
        THEN IF HasYear(data, parsed_query[1])
             THEN [year_filter |-> Some(parsed_query[1]),
                   actual_query |-> parsed_query[2], notice |-> FALSE]
             ELSE [year_filter |-> None, actual_query |-> user_query,
                   notice |-> TRUE]
        ELSE [year_filter |-> None, actual_query |-> user_query,
              notice |-> FALSE]

\* Line 159: `if results`
HasResultsAlways(res) == TRUE

HasResults(res) == res # <<>>

\* Line 161: the header announces len(results).
FoundHeaderOffByOne(res) == Reply("found", Len(res) - 1, None)

FoundHeader(res) == Reply("found", Len(res), None)

\* Line 171: the link is the sentinel or does not end with '.pdf'.
LinkUnavailableSentinelOnly(download_url) == download_url = NA

LinkUnavailable(download_url) ==
    download_url = NA \/ ~endswith(download_url, DOT_PDF)

\* Line 169: REGION_LINK_MAP.get(region_name, default)
Referer(map, region_name) ==
    IF region_name \in DOMAIN map THEN map[region_name] ELSE DEFAULT_REFERER

\* The for loop moves to the next result, or ends and the handler returns.
Advance(h) ==
    /\ idx' = [idx EXCEPT ![h] = @ + 1]
    /\ pc' = [pc EXCEPT ![h] = IF idx[h] + 1 = Len(results[h]) THEN "done" ELSE "loop"]

\* Lines 221-228: both except branches reply and fall through to the next
\* iteration.
AbortAfterError(h) ==
    /\ idx' = idx
    /\ pc' = [pc EXCEPT ![h] = "raised"]

ContinueAfterError(h) == Advance(h)

\* Lines 157-161 and 230-233: the search, then the header or the
\* "No results found" reply.  A header over no results (never sent by the
\* code as written) would be followed by a loop of no iterations.
SearchAndAnnounceInPlace(h, query, yfilter) ==
    LET res == search_exam_results(EXAM_DATA, query, yfilter)
    IN  /\ results' = [results EXCEPT ![h] = res]
        /\ idx' = [idx EXCEPT ![h] = 0]
        /\ EXAM_DATA' = IF Truthy(yfilter)
                        THEN SelectSeq(EXAM_DATA, LAMBDA g : g.year = yfilter[1])
                        ELSE EXAM_DATA
        /\ UNCHANGED <<exam_file, regions_file, main_pc, REGION_LINK_MAP, boot>>
        /\ IF HasResults(res)
           THEN /\ replies' = [replies EXCEPT ![h] = Append(@, FoundHeader(res))]
                /\ pc' = [pc EXCEPT ![h] = IF res = <<>> THEN "done" ELSE "loop"]
           ELSE /\ replies' = [replies EXCEPT ![h] =
                                  Append(@, Reply("no_results", 0, None))]
                /\ pc' = [pc EXCEPT ![h] = "done"]

SearchAndAnnounce(h, query, yfilter) ==
    LET res == search_exam_results(EXAM_DATA, query, yfilter)
    IN  /\ results' = [results EXCEPT ![h] = res]
        /\ idx' = [idx EXCEPT ![h] = 0]
        /\ UNCHANGED shared
        /\ IF HasResults(res)
           THEN /\ replies' = [replies EXCEPT ![h] = Append(@, FoundHeader(res))]
                /\ pc' = [pc EXCEPT ![h] = IF res = <<>> THEN "done" ELSE "loop"]
           ELSE /\ replies' = [replies EXCEPT ![h] =
                                  Append(@, Reply("no_results", 0, None))]
                /\ pc' = [pc EXCEPT ![h] = "done"]

\* start, lines 112-121
Start(h) ==
    /\ main_pc = "loaded" /\ pc[h] = "idle"
    /\ update' = [update EXCEPT ![h] = [kind |-> "start", msg |-> <<>>]]
    /\ Send(h, Reply("start", 0, None))
    /\ pc' = [pc EXCEPT ![h] = "done"]
    /\ UNCHANGED <<shared, year_filter, actual_query, results, idx, requests,
                   faults, call>>

\* help_command, lines 123-129
Help(h) ==
    /\ main_pc = "loaded" /\ pc[h] = "idle"
    /\ update' = [update EXCEPT ![h] = [kind |-> "help", msg |-> <<>>]]
    /\ Send(h, Reply("help", 0, None))
    /\ pc' = [pc EXCEPT ![h] = "done"]
    /\ UNCHANGED <<shared, year_filter, actual_query, results, idx, requests,
                   faults, call>>

\* handle_message from its entry to its first await, lines 133-161, 230-233.
Receive(h, m) ==
    /\ main_pc = "loaded" /\ pc[h] = "idle"
    /\ update' = [update EXCEPT ![h] = [kind |-> "text", msg |-> m]]
    /\ UNCHANGED <<requests, faults, call>>
    /\ LET user_query == strip(Text(m))
       IN  IF DataMissing(EXAM_DATA)
           THEN /\ Send(h, Reply("could_not_load", 0, None))
                /\ pc' = [pc EXCEPT ![h] = "done"]
                /\ UNCHANGED <<shared, year_filter, actual_query, results, idx>>
           ELSE LET p == ParseQuery(user_query, EXAM_DATA)
                IN  /\ year_filter' = [year_filter EXCEPT ![h] = p.year_filter]
                    /\ actual_query' = [actual_query EXCEPT ![h] = Some(p.actual_query)]
                    /\ IF p.notice
                       THEN /\ Send(h, Reply("year_notice", 0, None))
                            /\ pc' = [pc EXCEPT ![h] = "search"]
                            /\ UNCHANGED <<shared, results, idx>>
                       ELSE SearchAndAnnounce(h, p.actual_query, p.year_filter)

\* handle_message resumed after the notice of line 153.
SearchAfterNotice(h) ==
    /\ pc[h] = "search"
    /\ SearchAndAnnounce(h, actual_query[h][1], year_filter[h])
    /\ UNCHANGED <<update, year_filter, actual_query, requests, faults, call>>

\* One iteration of the loop, lines 163-189, up to its reply or, after a
\* successful download, up to the await of reply_document.
LoopStep(h) ==
    /\ pc[h] = "loop"
    /\ LET res == results[h][idx[h] + 1]
           download_url == res.download_link
           referer_url == Referer(REGION_LINK_MAP, res.region)
       IN  IF LinkUnavailable(download_url)
           THEN /\ Send(h, Reply("result_text", idx[h] + 1, Some(res)))
                /\ Advance(h)
                /\ UNCHANGED <<requests, faults>>
           ELSE /\ requests' = [requests EXCEPT ![h] =
                                   Append(@, [n |-> idx[h] + 1, url |-> download_url,
                                              referer |-> referer_url])]
                /\ \E outcome \in {"ok", "RequestException", "Exception"} :
                      CASE outcome = "ok" ->
                             /\ pc' = [pc EXCEPT ![h] = "senddoc"]
                             /\ UNCHANGED <<idx, replies, faults>>
                        [] outcome = "RequestException" ->
                             /\ faults' = [faults EXCEPT ![h] = Append(@, idx[h] + 1)]
                             /\ Send(h, Reply("download_error", idx[h] + 1, Some(res)))
                             /\ ContinueAfterError(h)
                        [] OTHER ->
                             /\ faults' = [faults EXCEPT ![h] = Append(@, idx[h] + 1)]
                             /\ Send(h, Reply("send_error", idx[h] + 1, Some(res)))
                             /\ ContinueAfterError(h)
    /\ UNCHANGED <<shared, update, year_filter, actual_query, results, call>>

\* The await of reply_document, lines 206-218, returns or raises.
SendDocument(h) ==
    /\ pc[h] = "senddoc"
    /\ LET res == results[h][idx[h] + 1]
       IN  \E sent \in BOOLEAN :
              IF sent
              THEN /\ Send(h, Reply("document", idx[h] + 1, Some(res)))
                   /\ Advance(h)
                   /\ UNCHANGED faults
              ELSE /\ faults' = [faults EXCEPT ![h] = Append(@, idx[h] + 1)]
                   /\ Send(h, Reply("send_error", idx[h] + 1, Some(res)))
                   /\ ContinueAfterError(h)
    /\ UNCHANGED <<shared, update, year_filter, actual_query, results, requests,
                   call>>

-----------------------------------------------------------------------------
(* Spec: the bot from construction on *)

Init ==
    /\ exam_file \in ExamFiles
    /\ regions_file \in RegionsFiles
    /\ main_pc = "start"
    /\ EXAM_DATA = <<>>
    /\ REGION_LINK_MAP = <<>>
    /\ boot = [exam |-> <<>>, regions |-> <<>>]
    /\ IdleHandlers
    /\ call = NoCall

Next ==
    \/ LoadExamData
    \/ \E h \in Handlers : Start(h)
    \/ \E h \in Handlers : Help(h)
    \/ \E h \in Handlers, m \in Messages : Receive(h, m)
    \/ \E h \in Handlers : SearchAfterNotice(h)
    \/ \E h \in Handlers : LoopStep(h)
    \/ \E h \in Handlers : SendDocument(h)

Spec == Init /\ [][Next]_vars

-----------------------------------------------------------------------------
(* Vocabulary of the properties *)

\* needle occurs in haystack when case is ignored
ContainsIgnoringCase(haystack, needle) ==
    \E i \in 1..(Len(haystack) + 1) :
        \A j \in 1..Len(needle) :
            /\ i + j - 1 <= Len(haystack)
            /\ LowerChar(haystack[i + j - 1]) = LowerChar(needle[j])

MatchesOnAField(entry, q) ==
    \E f \in SearchFields : ContainsIgnoringCase(Get(entry, f, <<>>), q)

Positions(data) ==
    UNION {{<<g, e>> : e \in 1..Len(data[g].entries)} : g \in 1..Len(data)}

Before(p, q) == p[1] < q[1] \/ (p[1] = q[1] /\ p[2] < q[2])

\* A year group passes a filter that is absent or equal to its key.
PassesFilter(yf, year) == yf = None \/ yf[1] = year

\* As PassesFilter, and every group passes the empty string.
PassesFilterOrEmpty(yf, year) == yf = None \/ yf[1] = <<>> \/ yf[1] = year

\* found is, in dataset order and without deduplication, one result per
\* entry of a passing year group that matches q on one of the five fields.
IsAnswer(found, data, q, yf, Passes(_, _)) ==
    LET sel == {p \in Positions(data) :
                   /\ Passes(yf, data[p[1]].year)
                   /\ MatchesOnAField(data[p[1]].entries[p[2]], q)}
        rank(p) == Cardinality({r \in sel : Before(r, p)}) + 1
    IN  /\ Len(found) = Cardinality(sel)
        /\ \A p \in sel :
              /\ found[rank(p)].year = data[p[1]].year
              /\ \A f \in SearchFields :
                    found[rank(p)][f] = Get(data[p[1]].entries[p[2]], f, <<>>)

FourDigits(token) ==
    Len(token) = 4 /\ \A i \in 1..4 : IsDigitChar(token[i])

\* the text without the whitespace around it
Trimmed(m) == m.token \o m.sep \o m.rest

TextHandlers == {h \in Handlers : update[h].kind = "text"}

PerResultKinds == {"result_text", "document", "download_error", "send_error"}
ErrorKinds == {"download_error", "send_error"}

RepliesOfKind(h, kinds) == {i \in 1..Len(replies[h]) : replies[h][i].kind \in kinds}

RepliesAbout(h, n) ==
    {i \in RepliesOfKind(h, PerResultKinds) : replies[h][i].n = n}

\* the search of this message has run
Searched(h) == RepliesOfKind(h, {"found", "no_results"}) # {}

EndsWithDotPdf(url) ==
    /\ Len(url) >= 4
    /\ url[Len(url) - 3] = "." /\ url[Len(url) - 2] = "p"
    /\ url[Len(url) - 1] = "d" /\ url[Len(url)] = "f"

-----------------------------------------------------------------------------
(* C1 *)

\* C1 as stated: for every dataset, query and year_filter (absent or any
\* string), search_exam_results returns exactly, in dataset order, one
\* result per entry whose year group equals the filter (or any group when
\* the filter is absent) and that matches on one of the five fields.
C1_AsStated ==
    call.state = "returned" =>
        IsAnswer(call.found_results, EXAM_DATA, call.query, call.year_filter,
                 PassesFilter)

\* C1 amended: the same, where an empty-string year_filter filters nothing,
\* exactly as an absent one.
C1_SearchIsExactAnswer ==
    call.state = "returned" =>
        IsAnswer(call.found_results, EXAM_DATA, call.query, call.year_filter,
                 PassesFilterOrEmpty)

C1_Witness ==
    /\ call.state = "returned"
    /\ call.year_filter = Some(Y2025)
    /\ call.query = <<"A">>
    /\ EXAM_DATA = Data3
    /\ Len(call.found_results) = 2

-----------------------------------------------------------------------------
(* C2 *)

C2_Holds(h, m) ==
    /\ year_filter[h] = Some(m.token)
    /\ actual_query[h] = Some(m.rest)
    /\ Searched(h) =>
          /\ \A i \in 1..Len(results[h]) : results[h][i].year = m.token
          /\ IsAnswer(results[h], EXAM_DATA, m.rest, Some(m.token), PassesFilter)

\* C2 as stated: every message whose text starts with a 4-digit numeric
\* token that is a key of the dataset is searched in that year only, with
\* the text after the token as the query.
C2_AsStated ==
    \A h \in TextHandlers :
        LET m == update[h].msg
        IN  FourDigits(m.token) /\ HasYear(EXAM_DATA, m.token) /\ Searched(h)
                => \A i \in 1..Len(results[h]) : results[h][i].year = m.token

\* C2 amended: the same for messages in which text other than whitespace
\* follows the year token.
C2_YearPrefixRestricts ==
    \A h \in TextHandlers :
        LET m == update[h].msg
        IN  FourDigits(m.token) /\ HasYear(EXAM_DATA, m.token) /\ m.rest # <<>>
                => C2_Holds(h, m)

C2_Witness ==
    \E h \in TextHandlers :
        /\ EXAM_DATA = Data1
        /\ update[h].msg.token = Y2025 /\ update[h].msg.rest = <<"B", " ", "a">>
        /\ pc[h] = "done"
        /\ Len(results[h]) = 1
        /\ results[h][1].township = <<"b", " ", "A">>

-----------------------------------------------------------------------------
(* C3 *)

C3_Holds(h, m) ==
    /\ Len(replies[h]) >= 1
    /\ replies[h][1].kind = "year_notice"
    /\ RepliesOfKind(h, {"year_notice"}) = {1}
    /\ year_filter[h] = None
    /\ Searched(h) => IsAnswer(results[h], EXAM_DATA, Trimmed(m), None, PassesFilter)

\* C3 as stated: with a non-empty dataset, every message whose text starts
\* with a 4-digit numeric token that is no key of the dataset gets the
\* "No data found for year" notice, once and before every other reply, and
\* an unfiltered search.
C3_AsStated ==
    \A h \in TextHandlers :
        LET m == update[h].msg
        IN  /\ EXAM_DATA # <<>>
            /\ FourDigits(m.token)
            /\ ~HasYear(EXAM_DATA, m.token)
            => C3_Holds(h, m)

\* C3 amended: the same for messages in which text other than whitespace
\* follows the year token.
C3_UnknownYearNotice ==
    \A h \in TextHandlers :
        LET m == update[h].msg
        IN  /\ EXAM_DATA # <<>>
            /\ FourDigits(m.token)
            /\ ~HasYear(EXAM_DATA, m.token)
            /\ m.rest # <<>>
            => C3_Holds(h, m)

C3_Witness ==
    \E h \in TextHandlers :
        /\ EXAM_DATA = Data2
        /\ update[h].msg.token = Y1999 /\ update[h].msg.rest = <<"a">>
        /\ pc[h] = "done"
        /\ Len(replies[h]) = 3
        /\ replies[h][1].kind = "year_notice"
        /\ replies[h][2].kind = "found"
        /\ replies[h][3].kind = "result_text"

-----------------------------------------------------------------------------
(* C4 *)

\* C4: with EXAM_DATA empty (a failed load included) search_exam_results
\* returns the empty list for every query and year_filter, and every text
\* message gets exactly one reply, the could-not-load message, with no
\* search, no download and no per-result reply.
C4_EmptyDataset ==
    main_pc = "loaded" /\ EXAM_DATA = <<>> =>
        /\ \A q \in Queries, yf \in YearFilters :
              search_exam_results(EXAM_DATA, q, yf) = <<>>
        /\ \A h \in TextHandlers :
              /\ replies[h] = <<Reply("could_not_load", 0, None)>>
              /\ pc[h] = "done"
              /\ actual_query[h] = None /\ year_filter[h] = None
              /\ results[h] = <<>> /\ idx[h] = 0
              /\ requests[h] = <<>>

C4_Witness ==
    \E h \in TextHandlers :
        /\ exam_file.kind = "bad_shape"
        /\ EXAM_DATA = <<>>
        /\ update[h].msg.token = Y2025
        /\ replies[h] = <<Reply("could_not_load", 0, None)>>

-----------------------------------------------------------------------------
(* C5 *)

\* C5: a failed download or document send of item i yields one error reply
\* naming item i; the handler never raises, and once it has ended every one
\* of the n results, failed or not, has its reply, in order.
C5_FailuresDoNotAbort ==
    \A h \in Handlers :
        /\ pc[h] # "raised"
        /\ \A k \in 1..Len(faults[h]) :
              LET n == faults[h][k]
              IN  /\ Cardinality(RepliesAbout(h, n)) = 1
                  /\ \A i \in RepliesAbout(h, n) :
                        /\ replies[h][i].kind \in ErrorKinds
                        /\ replies[h][i].res = Some(results[h][n])
        /\ pc[h] = "done" =>
              /\ \A n \in 1..Len(results[h]) : Cardinality(RepliesAbout(h, n)) = 1
              /\ \A i, j \in RepliesOfKind(h, PerResultKinds) :
                    i < j => replies[h][i].n < replies[h][j].n

C5_Witness ==
    \E h \in TextHandlers :
        /\ pc[h] = "done"
        /\ Len(results[h]) = 3
        /\ faults[h] = <<1>>
        /\ replies[h][2].kind = "download_error"
        /\ replies[h][3].kind = "result_text"
        /\ replies[h][4].kind = "document"

-----------------------------------------------------------------------------
(* C6 *)

\* C6: once loaded, EXAM_DATA and REGION_LINK_MAP stay as load_exam_data
\* left them whatever the handlers do, and the results of a message are the
\* answer to that message alone over the loaded data.
C6_HandlersWriteNothingShared ==
    main_pc = "loaded" =>
        /\ EXAM_DATA = boot.exam
        /\ REGION_LINK_MAP = boot.regions
        /\ \A h \in TextHandlers :
              Searched(h) =>
                  LET m == update[h].msg
                      filtered == /\ FourDigits(m.token) /\ m.rest # <<>>
                                  /\ HasYear(boot.exam, m.token)
                  IN  IF filtered
                      THEN IsAnswer(results[h], boot.exam, m.rest, Some(m.token),
                                    PassesFilter)
                      ELSE IsAnswer(results[h], boot.exam, Trimmed(m), None,
                                    PassesFilter)

C6_Witness ==
    /\ EXAM_DATA = Data1
    /\ pc[1] = "senddoc" /\ pc[2] = "loop"
    /\ Len(results[1]) = 1 /\ Len(results[2]) = 3 /\ idx[2] = 1

-----------------------------------------------------------------------------
(* C7 *)

\* C7: load_exam_data always completes; EXAM_DATA ends as the file's value
\* when the exam file loads and empty otherwise, REGION_LINK_MAP ends as the
\* map of the regions file when that loads and empty otherwise, each
\* whatever happened to the other file.
C7_LoadNeverRaises ==
    /\ main_pc = "start" => ENABLED LoadExamData
    /\ main_pc = "loaded" =>
          /\ EXAM_DATA = IF exam_file.kind = "ok" THEN exam_file.value ELSE <<>>
          /\ IF regions_file.kind = "ok"
             THEN LET items == regions_file.value
                  IN  /\ DOMAIN REGION_LINK_MAP =
                            {items[i].region_name : i \in 1..Len(items)}
                      /\ \A name \in DOMAIN REGION_LINK_MAP :
                            \E i \in 1..Len(items) :
                                /\ items[i].region_name = name
                                /\ items[i].link = REGION_LINK_MAP[name]
             ELSE REGION_LINK_MAP = <<>>

C7_Witness ==
    /\ main_pc = "loaded"
    /\ exam_file.kind = "bad_shape"
    /\ regions_file.kind = "ok"
    /\ EXAM_DATA = <<>>
    /\ REGION_LINK_MAP # <<>>

-----------------------------------------------------------------------------
(* C8 *)

\* C8: with a non-empty dataset, a message whose search finds nothing gets
\* exactly one "No results found" reply, as its last reply, and no header,
\* per-result reply or download; and that reply is sent only when the
\* search found nothing.
C8_NoResultsReply ==
    \A h \in TextHandlers :
        EXAM_DATA # <<>> =>
            /\ Searched(h) /\ results[h] = <<>> =>
                  /\ Cardinality(RepliesOfKind(h, {"no_results"})) = 1
                  /\ replies[h][Len(replies[h])].kind = "no_results"
                  /\ RepliesOfKind(h, {"found"} \cup PerResultKinds) = {}
                  /\ requests[h] = <<>>
                  /\ pc[h] = "done"
            /\ RepliesOfKind(h, {"no_results"}) # {} =>
                  /\ results[h] = <<>>
                  /\ results[h] = search_exam_results(EXAM_DATA, actual_query[h][1],
                                                      year_filter[h])

C8_Witness ==
    \E h \in TextHandlers :
        /\ EXAM_DATA = Data1
        /\ Len(replies[h]) = 2
        /\ replies[h][1].kind = "year_notice"
        /\ replies[h][2].kind = "no_results"
        /\ pc[h] = "done"

-----------------------------------------------------------------------------
(* C9 *)

-----------------------------------------------------------------------------
(* C10 *)

\* C10: a result whose link is 'N/A' or does not end with '.pdf' gets the
\* text reply and no HTTP request; a request goes only to a link that ends
\* with '.pdf', at most once per result; a document is sent only for a
\* result whose request succeeded.
C10_RequestsOnlyForPdfLinks ==
    \A h \in Handlers :
        /\ \A n \in 1..idx[h] :
              LET url == results[h][n].download_link
              IN  url = NA \/ ~EndsWithDotPdf(url) =>
                      /\ \A i \in RepliesAbout(h, n) :
                            /\ replies[h][i].kind = "result_text"
                            /\ replies[h][i].res = Some(results[h][n])
                      /\ RepliesAbout(h, n) # {}
                      /\ \A r \in 1..Len(requests[h]) : requests[h][r].n # n
        /\ \A r \in 1..Len(requests[h]) :
              /\ requests[h][r].url = results[h][requests[h][r].n].download_link
              /\ EndsWithDotPdf(requests[h][r].url)
              /\ \A r2 \in 1..Len(requests[h]) :
                    requests[h][r2].n = requests[h][r].n => r2 = r
        /\ \A i \in RepliesOfKind(h, {"document"}) :
              /\ \E r \in 1..Len(requests[h]) : requests[h][r].n = replies[h][i].n
              /\ \A k \in 1..Len(faults[h]) : faults[h][k] # replies[h][i].n

C10_Witness ==
    \E h \in TextHandlers :
        /\ pc[h] = "done"
        /\ Len(results[h]) = 3
        /\ results[h][2].download_link = NA
        /\ Len(requests[h]) = 2
        /\ replies[h][2].kind = "document"
        /\ replies[h][3].kind = "result_text"
        /\ replies[h][4].kind = "document"

====
